---- MODULE Spec2Model ----
(***************************************************************************)
(* ovpn-traffic-monitor: the session registry (OpenVPNUserManager), the    *)
(* capture supervisor (TCPDumpManager), the reader threads and main's      *)
(* loop of src/traffic_monitor.py, as one state machine.                   *)
(***************************************************************************)
EXTENDS Integers, Sequences, FiniteSets, TLC

\* ------------------------------------------------------------------ bounds
MaxRows == 2      \* session rows in one status snapshot
MaxUuid == 8      \* identifiers uuid4() can draw from for one real address
MaxProcs == 2     \* Popen() successes for one real address in one behaviour
MaxVisits == 1    \* lines appended to TRAFFIC_LOG in one behaviour
MaxLines == 3     \* lines of the status text a lone parser call is given

\* ------------------------------------------------------------- value sets
RealIPs == {"A", "B"}
VirtIPs == {"v.1", "v.2", "v.3"}

VARIABLES
  pc,                \* position of the control thread (main and its callees)
  i,                 \* index of the row the current for-loop is at
  users_list,        \* update_user_monitoring's users_list (the tick's snapshot)
  users_data,        \* OpenVPNUserManager.users_data: real_ip -> entry
  users_json,        \* content of USERS_JSON_FILE: real_ip -> entry
  active_processes,  \* TCPDumpManager.active_processes: real_ip -> process_data
  procs,             \* OS processes made by Popen and their reader threads, by handle
  log,               \* PlainLogger's stop, warning and error records of the current call
  visits,            \* TRAFFIC_LOG lines appended during the current call
  args,              \* monitor_user_traffic's parameters while it runs
  tickKeys,          \* history: keys of active_processes when the tick began
  attempted,         \* history: real_ips monitor_user_traffic was called for in the tick
  stopCalls,         \* history: real_ips whose process got terminate() in the tick
  ticked,            \* history: a tick has completed
  sameAsPrev,        \* history: the tick's snapshot equals the previous tick's
  atRestart,         \* history: the file's content when the program was started again
  json_text,         \* what USERS_JSON_FILE holds of users_json's text: "whole" or "cut"
  status_file        \* the status text a lone parse_openvpn_users call is given

vars == <<pc, i, users_list, users_data, users_json, active_processes,
          procs, log, visits, args, tickKeys, attempted, stopCalls, ticked,
          sameAsPrev, atRestart, json_text, status_file>>

\* ------------------------------------------------------------ dictionaries
EmptyDict == [k \in {} |-> k]

\* d[k] = v
Put(d, k, v) == [x \in DOMAIN d \cup {k} |-> IF x = k THEN v ELSE d[x]]

\* del d[k]
Del(d, k) == [x \in DOMAIN d \ {k} |-> d[x]]

\* sep.join(parts)
RECURSIVE Join(_, _)
Join(parts, sep) ==
  IF parts = <<>> THEN ""
  ELSE IF Len(parts) = 1 THEN parts[1]
  ELSE parts[1] \o sep \o Join(Tail(parts), sep)

\* -------------------------------------------------------------- PlainLogger
\* str.upper() on the message types the program passes
Upper(message_type) ==
  CASE message_type = "info" -> "INFO"
    [] message_type = "warning" -> "WARNING"
    [] message_type = "error" -> "ERROR"
    [] message_type = "debug" -> "DEBUG"

\* the levels logging records for one PlainLogger.log call: the type is
\* upper-cased and then compared with the lower-case names
LogLevels(message_type) ==
  LET t == Upper(message_type) IN
    (IF t = "info" THEN {"info"} ELSE {})
    \cup (IF t = "warning" THEN {"warning"} ELSE {})
    \cup (IF t = "error" THEN {"error"} ELSE {"info"})

\* the records one PlainLogger.log(text, message_type) call adds; text is kept
\* as its kind and the address it names
LogRecs(text, ip, message_type) ==
  {[level |-> l, type |-> message_type, text |-> text, ip |-> ip] :
     l \in LogLevels(message_type)}

\* ----------------------------------------------------- status file and parse
Header == [kind |-> "header"]
Trailer == [kind |-> "trailer"]
Other == [kind |-> "other"]
\* the virtual address the server gives a client, and the one it gives it
\* instead after a reassignment
HomeVirt(r) == IF r = "A" THEN "v.1" ELSE "v.3"

MovedVirt(r) == "v.2"

\* a line of three or more comma-separated fields; each of the first three
\* is kept as its colon-separated parts
Row(vip, cn, real) == [kind |-> "row", vip |-> vip, cn |-> cn, real |-> real]

\* the row of a client: its virtual address, its name, "real address:port"
RowLine(r, v) == Row(<<v>>, <<"alice">>, <<r, "p">>)

HomeRows == {RowLine(r, HomeVirt(r)) : r \in RealIPs}

RowSeqs(rows) == UNION {[1..n -> rows] : n \in 0..MaxRows}

Stray == RowLine("B", "v.3")

\* what open(OPENVPN_STATUS_FILE) can meet: no file or no permission, a
\* well-formed report around session rows drawn from rows, a report with a
\* short line inside the window
StatusFilesOver(rows) ==
  {[readable |-> FALSE, lines |-> <<>>]}
  \cup {[readable |-> TRUE,
         lines |-> <<Other, Stray, Header>> \o seq \o <<Trailer, Stray>>] :
          seq \in RowSeqs(rows)}
  \cup {[readable |-> TRUE, lines |-> <<Header, Other>>]}

\* the status files while every client keeps its virtual address
StatusFiles == StatusFilesOver(HomeRows)

\* the for loop over lines: the rows collected while include is set
RECURSIVE Collect(_, _)
Collect(lines, include) ==
  IF lines = <<>> THEN <<>>
  ELSE LET line == Head(lines) IN
    IF line.kind = "header" THEN Collect(Tail(lines), TRUE)
    ELSE IF include
      THEN IF line.kind = "trailer" THEN Collect(Tail(lines), FALSE)
           ELSE <<line>> \o Collect(Tail(lines), include)
      ELSE Collect(Tail(lines), include)

\* line.split(',')[2] exists
HasThreeFields(line) == line.kind = "row"

\* line.replace(line.split(',')[2], line.split(',')[2].split(':')[0]) on one
\* field: a field that is the text of the third field becomes the third
\* field's first colon-separated part
Replaced(field, line) == IF field = line.real THEN <<line.real[1]>> ELSE field

\* one collected row as the list [virtual, common name, real] of the fields
\* after the replace
UserOf(line) ==
  <<Join(Replaced(line.vip, line), ":"), Join(Replaced(line.cn, line), ":"),
    Join(Replaced(line.real, line), ":")>>

\* a parse that takes an unreadable file for one without sessions
ParseUnreadableAsEmpty(file) == [exit |-> FALSE, users |-> <<>>, error |-> "none"]

\* parse_openvpn_users: the users list returned, or exit and the error logged
\* where the code calls exit(1)
parse_openvpn_users(file) ==
  IF ~file.readable
  THEN [exit |-> TRUE, users |-> <<>>, error |-> "File not found or permission error"]
  ELSE LET result == Collect(file.lines, FALSE) IN
    IF \E k \in 1..Len(result) : ~HasThreeFields(result[k])
    THEN [exit |-> TRUE, users |-> <<>>, error |-> "Error when parsing openvpn users"]
    ELSE [exit |-> FALSE, users |-> [k \in 1..Len(result) |-> UserOf(result[k])],
          error |-> "none"]

\* no status text: the file cannot be read
NoFile == [readable |-> FALSE, lines |-> <<>>]

\* the set of real addresses of a users list
Reals(list) == {list[k][3] : k \in 1..Len(list)}

\* ------------------------------------------------------------------- state
NoArgs == [user_uuid |-> <<"-", 0>>, real_ip |-> "-", virtual_ip |-> "-",
           process |-> <<"-", 0>>]

Init ==
  /\ pc = "main_um"
  /\ i = 0
  /\ users_list = <<>>
  /\ users_data = EmptyDict
  /\ users_json = EmptyDict
  /\ active_processes = EmptyDict
  /\ procs = EmptyDict
  /\ log = {}
  /\ visits = {}
  /\ args = NoArgs
  /\ tickKeys = {}
  /\ attempted = {}
  /\ stopCalls = {}
  /\ ticked = FALSE
  /\ sameAsPrev = FALSE
  /\ atRestart = EmptyDict
  /\ json_text = "whole"
  /\ status_file = NoFile

hist == <<tickKeys, attempted, stopCalls, ticked, sameAsPrev, atRestart>>

\* ------------------------------------------------------ SessionRegistry
\* the identifiers some part of the state holds
UuidsOf(d) == {d[k].uuid : k \in DOMAIN d}

InUse ==
  UuidsOf(users_data) \cup UuidsOf(users_json) \cup UuidsOf(active_processes)
  \cup UuidsOf(procs) \cup {v.uuid : v \in visits} \cup {args.user_uuid}
  \cup UuidsOf(atRestart)

\* uuid.uuid4(): an identifier that differs from every identifier in used,
\* those the state holds and those the running call has drawn. Identifiers
\* are only ever compared, so the one of least number, named after the real
\* address it is drawn for, stands for all
Uuid4(real_ip, used) ==
  LET n == CHOOSE k \in 1..MaxUuid :
             /\ <<real_ip, k>> \notin used
             /\ \A m \in 1..(k - 1) : <<real_ip, m>> \in used
  IN <<real_ip, n>>

\* the entry update_user_data and add_user build
NewEntry(user_uuid, virtual_ip, real_ip, common_name) ==
  [uuid |-> user_uuid, virtual_ip |-> virtual_ip, real_ip |-> real_ip,
   common_name |-> common_name]

\* the registry as a call works on it: users_data (data), the file (json, and
\* text: how much of json's text it holds), the log (lg), the identifiers that
\* are taken (used)
Registry ==
  [data |-> users_data, json |-> users_json, lg |-> log, used |-> InUse,
   text |-> json_text]

\* with open(USERS_JSON_FILE, 'w'): json.dump(users_data); an IOError is
\* logged and the file keeps its content
WriteJson(reg, ok) ==
  IF ok THEN [reg EXCEPT !.json = reg.data, !.text = "whole"]
  ELSE [reg EXCEPT !.lg = @ \cup LogRecs("Could not write", "-", "error")]

\* where a process can die around one with open(USERS_JSON_FILE, 'w'):
\* json.dump(...): before open, after open has emptied the file and before
\* the last piece of text is on disk, after the file is closed
CrashPoints == {"before", "during", "after"}

\* the file when the process dies at the crash point of a write of reg.data
WriteCrash(reg, at) ==
  CASE at = "before" -> reg
    [] at = "during" -> [reg EXCEPT !.json = reg.data, !.text = "cut"]
    [] at = "after" -> [reg EXCEPT !.json = reg.data, !.text = "whole"]

\* the body of update_user_data's for loop for one row
UpdateRow(reg, user, ok) ==
  LET u == Uuid4(user[3], reg.used)
      entry == NewEntry(u, user[1], user[3], user[2])
  IN WriteJson([reg EXCEPT !.data = Put(reg.data, user[3], entry),
                           !.used = @ \cup {u}], ok)

\* update_user_data's for loop over the rows from k on; the writes of the
\* rows in fails raise IOError
RECURSIVE update_user_data(_, _, _, _)
update_user_data(reg, list, k, fails) ==
  IF k > Len(list) THEN reg
  ELSE update_user_data(UpdateRow(reg, list[k], k \notin fails), list, k + 1, fails)

\* -------------------------------------------------------- CaptureSupervisor
\* threading.Thread has a stop method
ThreadHasStop == FALSE

\* the process_data dictionary monitor_user_traffic builds
ProcessData ==
  [process |-> args.process, virtual_ip |-> args.virtual_ip,
   uuid |-> args.user_uuid, real_ip |-> args.real_ip, thread |-> args.process]

\* the handle of the next process made for real_ip: the address and how many
\* processes were made for it
NewPid(real_ip) ==
  <<real_ip, Cardinality({pid \in DOMAIN procs : pid[1] = real_ip}) + 1>>

\* process.terminate(): a running process is signalled, an ended one is left
Terminate(pr, pid) ==
  [pr EXCEPT ![pid].status = IF @ = "running" THEN "terminated" ELSE @]

\* stop_user_traffic_monitoring on st = the active_processes (ap), the
\* processes (pr), the log (lg) and the history of terminate() calls (sc)
stop_user_traffic_monitoring(st, user_ip) ==
  IF user_ip \in DOMAIN st.ap
  THEN LET pid == st.ap[user_ip].process
           lg1 == st.lg \cup LogRecs("Stop user traffic monitoring", user_ip, "info")
           pr1 == Terminate(st.pr, pid)
           lg2 == lg1 \cup LogRecs("Terminated process", user_ip, "debug")
       IN IF ThreadHasStop
          THEN [ap |-> Del(st.ap, user_ip),
                pr |-> [pr1 EXCEPT ![pid].reader = "stopped"],
                lg |-> lg2 \cup LogRecs("Stopped thread", user_ip, "debug"),
                sc |-> st.sc \cup {user_ip}]
          ELSE \* thread.stop() raises AttributeError: caught, logged
               [ap |-> st.ap,
                pr |-> pr1,
                lg |-> lg2 \cup LogRecs("Error when stopping", user_ip, "warning"),
                sc |-> st.sc \cup {user_ip}]
  ELSE st

\* a first loop that starts a capture for every row
AlwaysStart(real_ip) == TRUE

\* the test of update_user_monitoring's first loop
NeedsStart(real_ip) == real_ip \notin DOMAIN active_processes

\* a second loop that stops the capture of every row
StopEveryRow(list, k, st) ==
  IF list = <<>> THEN st ELSE stop_user_traffic_monitoring(st, list[1][3])

\* update_user_monitoring's second loop over the rows from k on
RECURSIVE StopLoop(_, _, _)
StopLoop(list, k, st) ==
  IF k > Len(list) THEN st
  ELSE LET real_ip == list[k][3] IN
    IF real_ip \in DOMAIN st.ap
    THEN StopLoop(list, k + 1, st)
    ELSE \* KeyError
         StopLoop(list, k + 1, stop_user_traffic_monitoring(st, real_ip))

\* ------------------------------------------------- update_user_monitoring
\* a tick that goes on after an error was logged
RetryTick == "main_um"

\* where the control thread is after exit(1) in a tick
AfterTickError == "exited"

\* users_list = parse_openvpn_users(); users_data = update_user_data(users_list)
\* on the status file met, with IOError raised by the writes of the rows in fails
UmBeginOn(file, fails) ==
  /\ pc = "main_um"
  /\ \E r \in {parse_openvpn_users(file)} :
         IF r.exit
         THEN /\ pc' = AfterTickError
              /\ log' = LogRecs(r.error, "-", "error")
              /\ UNCHANGED <<i, users_list, users_data, users_json, json_text, hist>>
         ELSE \E reg \in {update_user_data([Registry EXCEPT !.lg = {}], r.users, 1,
                                              fails \cap (1..Len(r.users)))} :
              /\ pc' = "um_start"
              /\ i' = 1
              /\ users_list' = r.users
              /\ users_data' = reg.data
              /\ users_json' = reg.json
              /\ json_text' = reg.text
              /\ log' = reg.lg
              /\ tickKeys' = DOMAIN active_processes
              /\ attempted' = {}
              /\ stopCalls' = {}
              /\ sameAsPrev' = (ticked /\ r.users = users_list)
              /\ UNCHANGED <<ticked, atRestart>>
  /\ visits' = {}
  /\ UNCHANGED <<active_processes, procs, args>>
  /\ UNCHANGED status_file

\* the tick begins and every write of the registry file succeeds
UmBegin == \E file \in StatusFiles : UmBeginOn(file, {})

\* first loop, one row: a user with no entry gets a thread that runs
\* monitor_user_traffic, and the loop joins it
UmStartRow ==
  /\ pc = "um_start"
  /\ i <= Len(users_list)
  /\ LET real_ip == users_list[i][3] IN
       IF NeedsStart(real_ip)
       THEN /\ pc' = "mut_popen"
            /\ args' = [user_uuid |-> users_data[real_ip].uuid,
                        real_ip |-> real_ip,
                        virtual_ip |-> users_data[real_ip].virtual_ip,
                        process |-> <<"-", 0>>]
            /\ attempted' = attempted \cup {real_ip}
            /\ i' = i
       ELSE /\ i' = i + 1
            /\ UNCHANGED <<pc, args, attempted>>
  /\ UNCHANGED <<users_list, users_data, users_json, active_processes,
                 procs, log, visits, tickKeys, stopCalls, ticked, sameAsPrev,
                 atRestart>>
  /\ UNCHANGED <<json_text, status_file>>

\* first loop: thread_monitor.start() raises, the except branch exits
UmStartThreadFails ==
  /\ pc = "um_start"
  /\ i <= Len(users_list)
  /\ NeedsStart(users_list[i][3])
  /\ pc' = AfterTickError
  /\ log' = log \cup LogRecs("Error when start threads", users_list[i][3], "error")
  /\ UNCHANGED <<i, users_list, users_data, users_json, active_processes,
                 procs, visits, args, hist>>
  /\ UNCHANGED <<json_text, status_file>>

\* the first loop is over: the second loop, and update_user_monitoring returns
UmStopLoop ==
  /\ pc = "um_start"
  /\ i > Len(users_list)
  /\ LET st == StopLoop(users_list, 1,
                        [ap |-> active_processes, pr |-> procs, lg |-> log,
                         sc |-> stopCalls]) IN
       /\ active_processes' = st.ap
       /\ procs' = st.pr
       /\ log' = st.lg
       /\ stopCalls' = st.sc
  /\ pc' = "main_ud"
  /\ i' = 0
  /\ ticked' = TRUE
  /\ UNCHANGED <<users_list, users_data, users_json, visits, args, tickKeys,
                 attempted, sameAsPrev, atRestart>>
  /\ UNCHANGED <<json_text, status_file>>

\* main's update_user_data(): users = parse_openvpn_users(), the for loop
MainUpdateUserDataOn(file, fails) ==
  /\ pc = "main_ud"
  /\ \E r \in {parse_openvpn_users(file)} :
         IF r.exit
         THEN /\ pc' = AfterTickError
              /\ log' = LogRecs(r.error, "-", "error")
              /\ UNCHANGED <<users_data, users_json, json_text>>
         ELSE \E reg \in {update_user_data([Registry EXCEPT !.lg = {}], r.users, 1,
                                              fails \cap (1..Len(r.users)))} :
              /\ pc' = "main_um"
              /\ users_data' = reg.data
              /\ users_json' = reg.json
              /\ json_text' = reg.text
              /\ log' = reg.lg
  /\ visits' = {}
  /\ tickKeys' = {}
  /\ attempted' = {}
  /\ stopCalls' = {}
  /\ sameAsPrev' = FALSE
  /\ atRestart' = EmptyDict
  /\ UNCHANGED <<i, users_list, active_processes, procs, args, ticked>>
  /\ UNCHANGED status_file

\* main's update_user_data() and every write of the registry file succeeds
MainUpdateUserData == \E file \in StatusFiles : MainUpdateUserDataOn(file, {})

\* the tick begins and every write of the registry file raises IOError
UmBeginDiskFails == \E file \in StatusFiles : UmBeginOn(file, 1..MaxRows)

\* main's update_user_data() and every write of the registry file raises IOError
MainUpdateUserDataDiskFails ==
  \E file \in StatusFiles : MainUpdateUserDataOn(file, 1..MaxRows)

\* --------------------------------------------------- monitor_user_traffic
\* where monitor_user_traffic returns to: the first loop's next row, or the
\* caller of a direct call (i = 0), which is followed no further
MutReturnPc == IF i = 0 THEN "returned" ELSE "um_start"

MutReturnI == IF i = 0 THEN 0 ELSE i + 1

\* an except branch that registered the entry all the same
RegisterAnyway(ap) == Put(ap, args.real_ip, ProcessData)

\* active_processes after the except branch of monitor_user_traffic
AfterLaunchError(ap) == ap

\* subprocess.Popen succeeds: a new tcpdump process, returncode None
MutPopen ==
  /\ pc = "mut_popen"
  /\ NewPid(args.real_ip)[2] <= MaxProcs
  /\ procs' = Put(procs, NewPid(args.real_ip),
                  [real_ip |-> args.real_ip, virtual_ip |-> args.virtual_ip,
                   uuid |-> args.user_uuid, status |-> "running",
                   reader |-> "none"])
  /\ args' = [args EXCEPT !.process = NewPid(args.real_ip)]
  /\ pc' = "mut_thread"
  /\ UNCHANGED <<i, users_list, users_data, users_json, active_processes,
                 log, visits, hist>>
  /\ UNCHANGED <<json_text, status_file>>

\* subprocess.Popen raises: the outer except logs, nothing is registered
MutPopenFails ==
  /\ pc = "mut_popen"
  /\ log' = log \cup LogRecs("Error when start monitor", args.real_ip, "error")
  /\ active_processes' = AfterLaunchError(active_processes)
  /\ pc' = MutReturnPc
  /\ i' = MutReturnI
  /\ args' = NoArgs
  /\ UNCHANGED <<users_list, users_data, users_json, procs, visits, hist>>
  /\ UNCHANGED <<json_text, status_file>>

\* thread_monitor.start(): the reader thread runs traffic_logging
MutThreadStart ==
  /\ pc = "mut_thread"
  /\ procs' = [procs EXCEPT ![args.process].reader = "running"]
  /\ pc' = "mut_join"
  /\ UNCHANGED <<i, users_list, users_data, users_json, active_processes,
                 log, visits, args, hist>>
  /\ UNCHANGED <<json_text, status_file>>

\* thread_monitor.start() raises: a warning, and the entry is registered
MutThreadStartFails ==
  /\ pc = "mut_thread"
  /\ log' = log \cup LogRecs("Warning when starting thread", args.real_ip, "warning")
  /\ active_processes' = Put(active_processes, args.real_ip, ProcessData)
  /\ pc' = MutReturnPc
  /\ i' = MutReturnI
  /\ args' = NoArgs
  /\ UNCHANGED <<users_list, users_data, users_json, procs, visits, hist>>
  /\ UNCHANGED <<json_text, status_file>>

\* thread_monitor.join() returns once traffic_logging has returned; then the
\* entry is registered
MutJoin ==
  /\ pc = "mut_join"
  /\ procs[args.process].reader \in {"done", "failed"}
  /\ active_processes' = Put(active_processes, args.real_ip, ProcessData)
  /\ pc' = MutReturnPc
  /\ i' = MutReturnI
  /\ args' = NoArgs
  /\ UNCHANGED <<users_list, users_data, users_json, procs, log, visits, hist>>
  /\ UNCHANGED <<json_text, status_file>>

\* ------------------------------------------- traffic_logging (reader thread)
\* the destinations of captured packets, each as the labels of its address:
\* a client's own virtual address and a foreign one
Dests == {<<"v", "1">>, <<"d", "1">>}

\* '.'.join(labels)
JoinDots(labels) == Join(labels, ".")

\* labels[:-1]
AllButLast(labels) == SubSeq(labels, 1, Len(labels) - 1)

\* the fifth space-separated field of a tcpdump line, as output.split(' ')[4]
\* .split('.') sees it: "address.port:", "address:" (a packet without ports),
\* and a field without a dot
FifthFields ==
  {d \o <<"53:">> : d \in Dests}
  \cup {<<d[1], d[2] \o ":">> : d \in Dests}
  \cup {<<"ICMP">>}

\* what one readline() of a running process can return: bytes decode() cannot
\* read, b'' (an empty read), a line of fewer than five fields, a line with a
\* fifth field
OutputLines ==
  {[kind |-> "undecodable"], [kind |-> "empty"], [kind |-> "short"]}
  \cup {[kind |-> "packet", fifth |-> f] : f \in FifthFields}

\* website = '.'.join(output.split(' ')[4].split('.')[:-1]).strip()
Website(fifth) == JoinDots(AllButLast(fifth))

\* a test that takes no destination for the client's own address
NeverSelf(website, virtual_ip) == FALSE

\* if website == process_data['virtual_ip']
IsSelfTraffic(website, virtual_ip) == website = virtual_ip

\* what socket.gethostbyaddr can do: return a name, raise socket.herror,
\* raise another error (socket.gaierror, a timeout); the three calls for one
\* line are taken to end alike
Lookups == {"host", "herror", "other_error"}

\* what log_website_visit can meet: the line is appended, Config() finds no
\* config.ini in the working directory and calls exit(1), open or write raises
Sinks == {"ok", "config_exit", "io_error"}

\* get_hostname_from_ip's result where it returns
Hostname(lookup) == IF lookup = "host" THEN "host" ELSE "N/A"

\* how one pass of the while loop ends for a line read from a running
\* process: "raise" (an Exception reaches the outer except), "exit"
\* (SystemExit leaves the thread), "skip" (continue), "visit"
Outcome(line, lookup, sink, virtual_ip) ==
  IF line.kind = "undecodable" THEN "raise"
  ELSE IF line.kind = "empty" THEN "skip"  \* poll() is None: ''.split(' ')[4]
  ELSE IF line.kind = "short" THEN "skip"
  ELSE IF IsSelfTraffic(Website(line.fifth), virtual_ip) THEN "skip"
  ELSE IF lookup = "other_error" THEN "raise"
  ELSE IF sink = "config_exit" THEN "exit"
  ELSE IF sink = "io_error" THEN "raise"
  ELSE "visit"

\* the line and what it meets make a pass of the while loop raise
Raises(line, lookup, sink, virtual_ip) ==
  Outcome(line, lookup, sink, virtual_ip) = "raise"

\* the record log_website_visit appends
VisitRecord(pid, line, lookup) ==
  [uuid |-> procs[pid].uuid, virtual_ip |-> procs[pid].virtual_ip,
   real_ip |-> procs[pid].real_ip,
   website |-> <<Website(line.fifth), Hostname(lookup)>>]

\* one pass of the while loop of the reader of process pid on a line read
\* while the process runs
ReaderPass(pid, line, lookup, sink) ==
  /\ procs[pid].reader = "running"
  /\ procs[pid].status = "running"
  /\ LET o == Outcome(line, lookup, sink, procs[pid].virtual_ip) IN
       CASE o = "raise" ->
              /\ procs' = [procs EXCEPT ![pid].reader = "failed"]
              /\ log' = log \cup LogRecs("Error in traffic logging thread", "-", "warning")
              /\ UNCHANGED visits
         [] o = "exit" ->
              /\ procs' = [procs EXCEPT ![pid].reader = "failed"]
              /\ log' = IF lookup = "herror"
                        THEN log \cup LogRecs("Error resolving hostname",
                                               Website(line.fifth), "warning")
                        ELSE log
              /\ UNCHANGED visits
         [] o = "skip" -> UNCHANGED <<procs, log, visits>>
         [] o = "visit" ->
              /\ Cardinality(visits) < MaxVisits
              /\ visits' = visits \cup {VisitRecord(pid, line, lookup)}
              /\ log' = IF lookup = "herror"
                        THEN log \cup LogRecs("Error resolving hostname",
                                               Website(line.fifth), "warning")
                        ELSE log
              /\ UNCHANGED procs
  /\ UNCHANGED <<pc, i, users_list, users_data, users_json, active_processes,
                 args, hist>>
  /\ UNCHANGED <<json_text, status_file>>

\* a pass of the while loop raises: the outer except logs a warning and
\* traffic_logging returns; every pass that raises ends the same way, the
\* one over bytes that do not decode is taken
ReaderFails(pid) ==
  /\ procs[pid].reader = "running"
  /\ procs[pid].status = "running"
  /\ \E line \in OutputLines, lookup \in Lookups, sink \in Sinks :
       Raises(line, lookup, sink, procs[pid].virtual_ip)
  /\ ReaderPass(pid, [kind |-> "undecodable"], "host", "ok")

\* a pass of the while loop ends the thread by SystemExit
ReaderDies(pid) ==
  \E line \in OutputLines, lookup \in Lookups, sink \in Sinks :
    /\ Outcome(line, lookup, sink, procs[pid].virtual_ip) = "exit"
    /\ ReaderPass(pid, line, lookup, sink)

\* a pass of the while loop that skips the line or records a visit
ReaderLine(pid) ==
  \E line \in OutputLines, lookup \in Lookups, sink \in Sinks :
    /\ Outcome(line, lookup, sink, procs[pid].virtual_ip) \in {"skip", "visit"}
    /\ ReaderPass(pid, line, lookup, sink)

\* a test that takes every empty read for the end of the process
EndedOnAnyRead(pid) == TRUE

\* process.poll() is not None
ProcessEnded(pid) == procs[pid].status # "running"

\* readline() returns b'' and poll() is not None: the loop breaks
ReaderEof(pid) ==
  /\ procs[pid].reader = "running"
  /\ ProcessEnded(pid)
  /\ procs' = [procs EXCEPT ![pid].reader = "done"]
  /\ UNCHANGED <<pc, i, users_list, users_data, users_json, active_processes,
                 log, visits, args, hist>>
  /\ UNCHANGED <<json_text, status_file>>

\* a tcpdump process ends on its own
ProcExit(pid) ==
  /\ procs[pid].status = "running"
  /\ procs' = [procs EXCEPT ![pid].status = "exited"]
  /\ UNCHANGED <<pc, i, users_list, users_data, users_json, active_processes,
                 log, visits, args, hist>>
  /\ UNCHANGED <<json_text, status_file>>

\* ---------------------------------------------------- add_user, delete_user
AddUser(real_ip, virtual_ip, common_name) ==
  /\ pc = "main_um"
  /\ LET u == Uuid4(real_ip, InUse)
         entry == NewEntry(u, virtual_ip, real_ip, common_name)
         reg == WriteJson([Registry EXCEPT !.data = Put(users_data, real_ip, entry),
                                           !.lg = {}], TRUE)
     IN /\ users_data' = reg.data
        /\ users_json' = reg.json
        /\ json_text' = reg.text
        /\ log' = reg.lg
  /\ visits' = {}
  /\ UNCHANGED <<pc, i, users_list, active_processes, procs, args, hist>>
  /\ UNCHANGED status_file

DeleteUser(real_ip) ==
  /\ pc = "main_um"
  /\ IF real_ip \in DOMAIN users_data
     THEN LET st == stop_user_traffic_monitoring(
                      [ap |-> active_processes, pr |-> procs, lg |-> {},
                       sc |-> stopCalls], real_ip)
              reg == WriteJson([Registry EXCEPT !.data = Del(users_data, real_ip),
                                                !.lg = st.lg], TRUE)
          IN /\ active_processes' = st.ap
             /\ procs' = st.pr
             /\ stopCalls' = st.sc
             /\ users_data' = reg.data
             /\ users_json' = reg.json
             /\ json_text' = reg.text
             /\ log' = reg.lg
     ELSE /\ log' = {}
          /\ UNCHANGED <<active_processes, procs, stopCalls, users_data, users_json,
                         json_text>>
  /\ visits' = {}
  /\ UNCHANGED <<pc, i, users_list, args, tickKeys, attempted, ticked, sameAsPrev,
                 atRestart>>
  /\ UNCHANGED status_file

\* main run with --add as a process of its own, beside the running program:
\* the constructor makes users_data empty, add_user puts the one entry in it
\* and writes it to USERS_JSON_FILE, main exits; the running program's memory
\* and log are not this process's
OneShotAdd(real_ip, virtual_ip, common_name) ==
  /\ LET u == Uuid4(real_ip, InUse)
         entry == NewEntry(u, virtual_ip, real_ip, common_name)
         reg == WriteJson([Registry EXCEPT !.data = Put(EmptyDict, real_ip, entry),
                                           !.lg = {}], TRUE)
     IN /\ users_json' = reg.json
        /\ json_text' = reg.text
  /\ UNCHANGED <<pc, i, users_list, users_data, active_processes, procs, log,
                 visits, args, hist, status_file>>

\* ------------------------------------------- parse_openvpn_users on its own
\* the lines of the status texts a lone call is given: the header, the
\* trailer, a line without commas, and rows whose real-address field has a
\* port, has none, has more than one colon, or is also the common name
ParseLines ==
  {Header, Trailer, Other,
   Row(<<"v.1">>, <<"alice">>, <<"A", "p">>),
   Row(<<"v.3">>, <<"bob">>, <<"B">>),
   Row(<<"v.1">>, <<"alice">>, <<"A", "6", "p">>),
   Row(<<"v.3">>, <<"B", "p">>, <<"B", "p">>)}

ParseFiles ==
  {[readable |-> TRUE, lines |-> ls] :
     ls \in UNION {[1..n -> ParseLines] : n \in 0..MaxLines}}

InitParse ==
  /\ pc = "parse"
  /\ i = 0
  /\ users_list = <<>>
  /\ users_data = EmptyDict
  /\ users_json = EmptyDict
  /\ active_processes = EmptyDict
  /\ procs = EmptyDict
  /\ log = {}
  /\ visits = {}
  /\ args = NoArgs
  /\ tickKeys = {}
  /\ attempted = {}
  /\ stopCalls = {}
  /\ ticked = FALSE
  /\ sameAsPrev = FALSE
  /\ atRestart = EmptyDict
  /\ json_text = "whole"
  /\ status_file \in ParseFiles

\* users = parse_openvpn_users() on the status text
ParseCall ==
  /\ pc = "parse"
  /\ LET r == parse_openvpn_users(status_file) IN
       /\ pc' = IF r.exit THEN AfterTickError ELSE "parsed"
       /\ users_list' = r.users
       /\ log' = IF r.exit THEN LogRecs(r.error, "-", "error") ELSE log
  /\ UNCHANGED <<i, users_data, users_json, active_processes, procs, visits,
                 args, hist, json_text, status_file>>

\* ------------------------------------------------- calls from outside main
\* monitor_user_traffic called with a registry entry's values while main's
\* loop is between two calls
DirectStart(real_ip) ==
  /\ pc = "main_um"
  /\ real_ip \in DOMAIN users_data
  /\ pc' = "mut_popen"
  /\ args' = [user_uuid |-> users_data[real_ip].uuid,
              real_ip |-> real_ip,
              virtual_ip |-> users_data[real_ip].virtual_ip,
              process |-> <<"-", 0>>]
  /\ UNCHANGED <<i, users_list, users_data, users_json, active_processes,
                 procs, log, visits, hist>>
  /\ UNCHANGED <<json_text, status_file>>

\* the program ends (exit, an interrupt, a kill) and main runs again: the
\* constructors make empty dictionaries, the new run holds no handle of the
\* processes of the old one, the file is as it was left
Restart ==
  /\ pc' = "main_um"
  /\ i' = 0
  /\ users_list' = <<>>
  /\ users_data' = EmptyDict
  /\ active_processes' = EmptyDict
  /\ procs' = EmptyDict
  /\ log' = {}
  /\ visits' = {}
  /\ args' = NoArgs
  /\ tickKeys' = {}
  /\ attempted' = {}
  /\ stopCalls' = {}
  /\ ticked' = FALSE
  /\ sameAsPrev' = FALSE
  /\ atRestart' = users_json
  /\ UNCHANGED users_json
  /\ UNCHANGED <<json_text, status_file>>

\* ------------------------------------------------------- crashes in a write
\* the process is dead: what it held in memory is gone, its handles too
Died ==
  /\ pc' = "crashed"
  /\ i' = 0
  /\ users_list' = <<>>
  /\ users_data' = EmptyDict
  /\ active_processes' = EmptyDict
  /\ procs' = EmptyDict
  /\ log' = {}
  /\ visits' = {}
  /\ args' = NoArgs
  /\ tickKeys' = {}
  /\ attempted' = {}
  /\ stopCalls' = {}
  /\ ticked' = FALSE
  /\ sameAsPrev' = FALSE
  /\ UNCHANGED <<atRestart, status_file>>

\* the process dies around the write of row k of main's update_user_data call
CrashInReconcile ==
  /\ pc = "main_ud"
  /\ \E file \in StatusFiles, at \in CrashPoints :
       LET r == parse_openvpn_users(file) IN
         /\ ~r.exit
         /\ \E k \in 1..Len(r.users) :
              LET before == update_user_data(Registry, SubSeq(r.users, 1, k - 1), 1, {})
                  user == r.users[k]
                  u == Uuid4(user[3], before.used)
                  entry == NewEntry(u, user[1], user[3], user[2])
                  reg == WriteCrash([before EXCEPT !.data = Put(before.data, user[3], entry)],
                                    at)
              IN /\ users_json' = reg.json
                 /\ json_text' = reg.text
  /\ Died

\* the process dies around the write of add_user
CrashInAdd(real_ip, virtual_ip, common_name) ==
  /\ pc = "main_um"
  /\ \E at \in CrashPoints :
       LET u == Uuid4(real_ip, InUse)
           entry == NewEntry(u, virtual_ip, real_ip, common_name)
           reg == WriteCrash([Registry EXCEPT !.data = Put(users_data, real_ip, entry)], at)
       IN /\ users_json' = reg.json
          /\ json_text' = reg.text
  /\ Died

\* the process dies around the write of delete_user
CrashInDelete(real_ip) ==
  /\ pc = "main_um"
  /\ real_ip \in DOMAIN users_data
  /\ \E at \in CrashPoints :
       LET reg == WriteCrash([Registry EXCEPT !.data = Del(users_data, real_ip)], at)
       IN /\ users_json' = reg.json
          /\ json_text' = reg.text
  /\ Died

\* --------------------------------------------------------------- behaviours
Pids == DOMAIN procs

\* main's loop, the capture processes and their readers
Next ==
  \/ UmBegin
  \/ UmStartRow
  \/ MutPopen
  \/ MutPopenFails
  \/ MutThreadStart
  \/ MutJoin
  \/ UmStopLoop
  \/ MainUpdateUserData
  \/ \E pid \in Pids : ReaderFails(pid)
  \/ \E pid \in Pids : ReaderEof(pid)
  \/ \E pid \in Pids : ProcExit(pid)

Spec == Init /\ [][Next]_vars

\* main's loop with add_user and delete_user called between two of its calls
NextAdmin ==
  \/ Next
  \/ \E real_ip \in RealIPs : AddUser(real_ip, HomeVirt(real_ip), "alice")
  \/ \E real_ip \in RealIPs : DeleteUser(real_ip)

SpecAdmin == Init /\ [][NextAdmin]_vars

\* main's loop with monitor_user_traffic called from outside it
NextDirect ==
  \/ Next
  \/ \E real_ip \in RealIPs : DirectStart(real_ip)

SpecDirect == Init /\ [][NextDirect]_vars

\* runs of the program one after the other
NextRestart ==
  \/ Next
  \/ Restart

SpecRestart == Init /\ [][NextRestart]_vars

\* main's loop with a registry file that cannot be written
NextDisk ==
  \/ UmBeginDiskFails
  \/ UmStartRow
  \/ MutPopen
  \/ MutPopenFails
  \/ MutThreadStart
  \/ MutJoin
  \/ UmStopLoop
  \/ MainUpdateUserDataDiskFails
  \/ \E pid \in Pids : ReaderFails(pid)
  \/ \E pid \in Pids : ReaderEof(pid)
  \/ \E pid \in Pids : ProcExit(pid)

SpecDisk == Init /\ [][NextDisk]_vars

\* main's loop, with launches and readers that do not fail, and a process that
\* dies around a write of the registry file
NextCrash ==
  \/ UmBegin
  \/ UmStartRow
  \/ MutPopen
  \/ MutThreadStart
  \/ MutJoin
  \/ UmStopLoop
  \/ MainUpdateUserData
  \/ \E pid \in Pids : ReaderEof(pid)
  \/ \E pid \in Pids : ProcExit(pid)
  \/ CrashInReconcile
  \/ \E real_ip \in RealIPs : CrashInAdd(real_ip, HomeVirt(real_ip), "alice")
  \/ \E real_ip \in RealIPs : CrashInDelete(real_ip)

SpecCrash == Init /\ [][NextCrash]_vars

\* the first tick, with launches that do not fail, and readers that read
\* lines of every kind
NextReader ==
  \/ UmBegin
  \/ UmStartRow
  \/ MutPopen
  \/ MutThreadStart
  \/ MutJoin
  \/ UmStopLoop
  \/ \E pid \in Pids : ReaderFails(pid)
  \/ \E pid \in Pids : ReaderLine(pid)
  \/ \E pid \in Pids : ReaderDies(pid)
  \/ \E pid \in Pids : ReaderEof(pid)
  \/ \E pid \in Pids : ProcExit(pid)

SpecReader == Init /\ [][NextReader]_vars

\* the rows of one client whose virtual address the server changes
MovedRows == {RowLine("A", HomeVirt("A")), RowLine("A", MovedVirt("A"))}

MovedFiles == StatusFilesOver(MovedRows)

\* the tick begins on a status text of the client that moves
UmBeginMoved == \E file \in MovedFiles : UmBeginOn(file, {})

\* main's update_user_data() on a status text of the client that moves
MainUpdateUserDataMoved == \E file \in MovedFiles : MainUpdateUserDataOn(file, {})

\* main's loop while one client comes back with another virtual address, or
\* is listed twice
NextMoved ==
  \/ UmBeginMoved
  \/ UmStartRow
  \/ MutPopen
  \/ MutPopenFails
  \/ MutThreadStart
  \/ MutJoin
  \/ UmStopLoop
  \/ MainUpdateUserDataMoved
  \/ \E pid \in Pids : ReaderFails(pid)
  \/ \E pid \in Pids : ReaderEof(pid)
  \/ \E pid \in Pids : ProcExit(pid)

SpecMoved == Init /\ [][NextMoved]_vars

\* every handle a process can get
AllPids == RealIPs \X (1..MaxProcs)

\* the reader thread of process pid is scheduled: once the process has ended
\* and its stream is at its end, the read that finds it is made
ReaderScheduled == \A pid \in AllPids : WF_vars(pid \in Pids /\ ReaderEof(pid))

\* the first tick and the readers, each reader thread being scheduled
SpecReaderLive == SpecReader /\ ReaderScheduled

\* the status texts that parse and list client A
SteadyFiles ==
  {file \in StatusFiles :
     ~parse_openvpn_users(file).exit /\ "A" \in Reals(parse_openvpn_users(file).users)}

\* the tick begins on a status text that lists client A
UmBeginSteady == \E file \in SteadyFiles : UmBeginOn(file, {})

\* main's update_user_data() on a status text that lists client A
MainUpdateUserDataSteady == \E file \in SteadyFiles : MainUpdateUserDataOn(file, {})

\* the steps of the control thread while client A stays connected and every
\* launch succeeds
ControlSteady ==
  \/ UmBeginSteady
  \/ UmStartRow
  \/ MutPopen
  \/ MutThreadStart
  \/ MutJoin
  \/ UmStopLoop
  \/ MainUpdateUserDataSteady

NextSteady ==
  \/ ControlSteady
  \/ \E pid \in Pids : ReaderEof(pid)
  \/ \E pid \in Pids : ProcExit(pid)

\* main's loop while client A stays connected; the control thread and the
\* reader threads are scheduled, a capture process ends when it ends
SpecSteady ==
  Init /\ [][NextSteady]_vars /\ WF_vars(ControlSteady) /\ ReaderScheduled

\* main's loop, with launches and readers that do not fail, and add run as a
\* one-shot command from time to time
NextOneShot ==
  \/ UmBegin
  \/ UmStartRow
  \/ MutPopen
  \/ MutThreadStart
  \/ MutJoin
  \/ UmStopLoop
  \/ MainUpdateUserData
  \/ \E pid \in Pids : ReaderEof(pid)
  \/ \E pid \in Pids : ProcExit(pid)
  \/ \E real_ip \in RealIPs : OneShotAdd(real_ip, HomeVirt(real_ip), "alice")

SpecOneShot == Init /\ [][NextOneShot]_vars

\* the main loop where starting a control thread of the first loop can fail
NextFaults ==
  \/ Next
  \/ UmStartThreadFails

SpecFaults == Init /\ [][NextFaults]_vars

\* one call of parse_openvpn_users on each status text
SpecParse == InitParse /\ [][ParseCall]_vars

\* ============================================================= properties
Keys == DOMAIN active_processes

\* the processes made for real_ip that have neither exited nor been terminated
Live(real_ip) ==
  {pid \in DOMAIN procs :
     procs[pid].real_ip = real_ip /\ procs[pid].status = "running"}

\* the log holds a record of this text about this address
Logged(lg, text, ip) == \E rec \in lg : rec.text = text /\ rec.ip = ip

\* a tick has just ended: update_user_monitoring returned to main
TickEnd == pc = "main_ud"

\* no Popen of the current tick raised
NoLaunchFailed == \A r \in RealIPs : ~Logged(log, "Error when start monitor", r)

\* C1: set-exactness. After any tick whose snapshot has the set of real
\* addresses D, the key set of active_processes is exactly D, whatever it was
\* before. Ticks in which a launch failed are left aside: they leave the
\* failed address out of the keys.
C1_KeysEqualSnapshot == (TickEnd /\ NoLaunchFailed) => Keys = Reals(users_list)

\* C2: departed sessions are stopped. A real address that was a key of
\* active_processes when a tick began and is not in the tick's snapshot has,
\* when the tick ends, had terminate() called on its process, is no key any
\* more, and has a stop record in the log.
C2_DepartedStopped ==
  TickEnd =>
    \A r \in tickKeys \ Reals(users_list) :
      /\ r \in stopCalls
      /\ r \notin Keys
      /\ Logged(log, "Stop user traffic monitoring", r)

\* C3: identifier stability. The reconcile of a tick (update_user_data on the
\* tick's snapshot) leaves the uuid of every entry that was in users_data and
\* whose real address is in the snapshot as it was.
C3_UuidStable ==
  [][\A r \in DOMAIN users_data :
       (UmBegin /\ r \in Reals(users_list')) =>
         users_data'[r].uuid = users_data[r].uuid]_vars

\* C4: no loss of identity across a restart. When the first tick after the
\* program was started again ends, every real address the file held at the
\* restart is in the file with the uuid it had.
C4_IdentityKept ==
  TickEnd =>
    \A r \in DOMAIN atRestart :
      r \in DOMAIN users_json /\ users_json[r].uuid = atRestart[r].uuid

\* C5: no duplicate captures. In every state of a run of main's loop with
\* add_user and delete_user calls, each real address has at most one process
\* that was launched and has neither exited nor been terminated.
C5_AtMostOneLive == \A r \in RealIPs : Cardinality(Live(r)) <= 1

\* a tick on two rows of one real address has ended and the address's one
\* capture process runs
C5_Witness ==
  /\ TickEnd
  /\ Len(users_list) = 2
  /\ users_list[1][3] = users_list[2][3]
  /\ Cardinality(Live(users_list[1][3])) = 1

\* C6: the control loop does not block on capture output. The control thread
\* is never inside monitor_user_traffic waiting for the reader of a process
\* that runs and whose reader reads.
C6_NoWaitOnReader ==
  ~(/\ pc = "mut_join"
    /\ procs[args.process].status = "running"
    /\ procs[args.process].reader = "running")

\* C7 as stated: of two consecutive ticks with the same snapshot the second
\* stops no process and leaves the key set as it was when it began (every
\* launch adds a key, so it launches none).
C7_SecondTickChangesNothing ==
  (TickEnd /\ sameAsPrev) => (stopCalls = {} /\ Keys = tickKeys)

\* C7 amended: of two consecutive ticks with the same snapshot the second
\* stops no process, calls monitor_user_traffic for no real address that was
\* a key when it began, keeps every key, and adds keys only of real addresses
\* it called monitor_user_traffic for (those whose launch failed before).
C7_SecondTickRetriesOnly ==
  (TickEnd /\ sameAsPrev) =>
    /\ stopCalls = {}
    /\ attempted \cap tickKeys = {}
    /\ tickKeys \subseteq Keys
    /\ Keys \ tickKeys \subseteq attempted

\* the second of two ticks on the same snapshot has ended, and the snapshot
\* holds a real address that had a capture when the tick began
C7_Witness ==
  /\ TickEnd
  /\ sameAsPrev
  /\ Reals(users_list) \cap tickKeys # {}

\* C8: stop removes the entry. A delete_user call for a real address that is
\* in the registry and a key of active_processes, which calls
\* stop_user_traffic_monitoring for it, leaves the address no key.
C8_StopRemovesEntry ==
  [][\A r \in RealIPs :
       (DeleteUser(r) /\ r \in DOMAIN users_data /\ r \in Keys) =>
         r \notin DOMAIN active_processes']_vars

\* C9: start is a no-op on an existing entry. While monitor_user_traffic runs
\* for a real address that is a key of active_processes, no process is made
\* and active_processes stays as it is.
C9_StartNoOpOnExisting ==
  [][(pc \in {"mut_popen", "mut_thread", "mut_join"} /\ args.real_ip \in Keys) =>
       (DOMAIN procs' = DOMAIN procs /\ active_processes' = active_processes)]_vars

\* C10: a launch failure is not registered and is retried. When Popen raises,
\* the error is logged, active_processes stays as it is without the real
\* address, and the first loop goes on; and when a tick ends,
\* monitor_user_traffic was called in it for every real address of the
\* snapshot that was no key when the tick began.
C10_FailureNotRegisteredRetried ==
  [][/\ MutPopenFails =>
          /\ active_processes' = active_processes
          /\ args.real_ip \notin DOMAIN active_processes'
          /\ Logged(log', "Error when start monitor", args.real_ip)
          /\ pc' = "um_start"
     /\ UmStopLoop =>
          \A r \in Reals(users_list) \ tickKeys : r \in attempted]_vars

\* the second of two ticks on the same snapshot has ended; it called
\* monitor_user_traffic again for a real address whose launch had failed in
\* the first, and the launch failed again
C10_Witness ==
  /\ TickEnd
  /\ sameAsPrev
  /\ \E r \in attempted :
       r \notin Keys /\ Logged(log, "Error when start monitor", r)

\* C11: an unreadable status source is a hard failure. A call of
\* parse_openvpn_users that meets a missing or forbidden file returns no list:
\* the error is logged and the run ends, with the snapshot, the registry, its
\* file, active_processes and the processes as they were and no terminate()
\* called.
C11_UnreadableIsFatal ==
  [][(UmBeginOn(NoFile, {}) \/ MainUpdateUserDataOn(NoFile, {})) =>
       /\ pc' = "exited"
       /\ Logged(log', "File not found or permission error", "-")
       /\ UNCHANGED <<users_list, users_data, users_json, active_processes,
                      procs, stopCalls>>]_vars

\* the run ended on an unreadable status file while captures were registered
C11_Witness ==
  /\ pc = "exited"
  /\ Logged(log, "File not found or permission error", "-")
  /\ Keys # {}
  /\ users_data # EmptyDict

\* C12: a registry entry is deleted when its real address is absent from a
\* reconciliation pass. After the reconcile of a tick the keys of users_data
\* are the real addresses of the tick's snapshot.
C12_RegistryEqualsSnapshot ==
  pc = "um_start" => DOMAIN users_data = Reals(users_list)

\* the control thread is inside a tick, after its reconcile
InTick == pc \in {"um_start", "mut_popen", "mut_thread", "mut_join", "main_ud"}

\* C13: an unwritable registry file is a fatal-input error. In a tick whose
\* reconcile logged a failed write of the registry file, monitor_user_traffic
\* is called for no real address and terminate() for no process.
C13_WriteFailureAbortsTick ==
  (InTick /\ Logged(log, "Could not write", "-")) =>
    (attempted = {} /\ stopCalls = {})

\* C14: persistence atomicity. When the process has died around a write of
\* the registry file, the file holds the whole text of the previous mapping or
\* the whole text of the new one.
C14_FileWholeAfterCrash == pc = "crashed" => json_text = "whole"

\* C15: self-traffic suppression. A pass of a reader on a line whose extracted
\* destination is the virtual address of the reader's session appends nothing
\* to the visit log and leaves the reader reading.
C15_SelfTrafficSkipped ==
  [][\A pid \in Pids, line \in OutputLines, lookup \in Lookups, sink \in Sinks :
       (/\ line.kind = "packet"
        /\ Website(line.fifth) = procs[pid].virtual_ip
        /\ ReaderPass(pid, line, lookup, sink)) =>
         (visits' = visits /\ procs'[pid].reader = "running")]_vars

\* a reader reads the output of a running capture whose session's virtual
\* address is the extracted destination of a line, and no visit is recorded
C15_Witness ==
  \E pid \in Pids :
    /\ procs[pid].reader = "running"
    /\ procs[pid].status = "running"
    /\ \E line \in OutputLines :
         line.kind = "packet" /\ Website(line.fifth) = procs[pid].virtual_ip
    /\ visits = {}

\* C16: a reverse-lookup failure does not abort classification. A pass of a
\* reader on a line with a foreign destination whose name lookup fails, in
\* whatever way, appends the one VisitRecord of the line with the unresolved
\* name and leaves the reader reading.
C16_LookupFailureStillRecords ==
  [][\A pid \in Pids, line \in OutputLines, lookup \in {"herror", "other_error"} :
       (/\ line.kind = "packet"
        /\ Website(line.fifth) # procs[pid].virtual_ip
        /\ ReaderPass(pid, line, lookup, "ok")) =>
         /\ visits' = visits \cup {VisitRecord(pid, line, "herror")}
         /\ visits' # visits
         /\ procs'[pid].reader = "running"]_vars

\* C17: reader-task exceptions are non-fatal. Whenever a pass of a reader on
\* a line ends the reader, a warning of the traffic logging thread is logged
\* and the control thread stays where it is.
C17_ReaderEndIsLoggedWarning ==
  [][\A pid \in Pids :
       (procs[pid].reader = "running" /\ procs'[pid].reader = "failed") =>
         /\ \E rec \in log' :
              rec.text = "Error in traffic logging thread" /\ rec.type = "warning"
         /\ pc' = pc]_vars

\* the real-address field without its ":port" suffix
StripPort(real) ==
  IF Len(real) > 1 THEN Join(SubSeq(real, 1, Len(real) - 1), ":") ELSE Join(real, ":")

\* the status text has one header row, one trailer row after it, and only
\* session rows between the two
WellFormed(lines) ==
  \E h, t \in 1..Len(lines) :
    /\ h < t
    /\ \A k \in 1..Len(lines) :
         /\ lines[k] = Header <=> k = h
         /\ lines[k] = Trailer <=> k = t
         /\ (h < k /\ k < t) => lines[k].kind = "row"

\* the rows between the header and the trailer of a well-formed text, in
\* order, each with its virtual address, its common name and its real
\* address without the port
WindowRows(lines) ==
  LET h == CHOOSE k \in 1..Len(lines) : lines[k] = Header
      t == CHOOSE k \in 1..Len(lines) : lines[k] = Trailer
  IN [k \in 1..(t - h - 1) |->
        <<Join(lines[h + k].vip, ":"), Join(lines[h + k].cn, ":"),
          StripPort(lines[h + k].real)>>]

\* C18: parser window and port stripping. A call of parse_openvpn_users on a
\* status text with one header, one trailer after it and session rows between
\* them returns exactly those rows, in order, each with the ":port" suffix
\* cut from its real address and its other two fields as they are.
C18_WindowRowsPortStripped ==
  (pc # "parse" /\ WellFormed(status_file.lines)) =>
    (pc = "parsed" /\ users_list = WindowRows(status_file.lines))

\* the line has fewer than five fields, or a fifth field whose extracted
\* destination is empty
NoDestination(line) ==
  \/ line.kind \in {"empty", "short"}
  \/ (line.kind = "packet" /\ Website(line.fifth) = "")

\* C20: a line without a usable destination is skipped. A pass of the reader
\* over a line of fewer than five fields, or over one whose extracted
\* destination is empty, appends no visit, makes no lookup (so logs nothing
\* about one) and leaves the reader running.
C20_NoDestinationSkipped ==
  [][\A pid \in Pids, line \in OutputLines, lookup \in Lookups, sink \in Sinks :
       (NoDestination(line) /\ ReaderPass(pid, line, lookup, sink)) =>
         UNCHANGED <<visits, log, procs>>]_vars

\* the error records a tick writes before it gives up
TickErrors ==
  {"File not found or permission error", "Error when parsing openvpn users",
   "Error when start threads"}

TickErrorLogged(lg) == \E rec \in lg : rec.text \in TickErrors /\ rec.type = "error"

\* C19: fail-stop loop. A step in which a tick gives up writes an error
\* record and leaves the loop; the loop is left only that way; and once it
\* is left no tick runs again: the control state, the snapshot, the registry
\* and the process table stay as they are.
C19_FailStop ==
  [][/\ (TickErrorLogged(log') /\ ~TickErrorLogged(log)) => pc' = "exited"
     /\ (pc # "exited" /\ pc' = "exited") => TickErrorLogged(log')
     /\ pc = "exited" =>
          (pc' = "exited"
           /\ UNCHANGED <<i, users_list, users_data, users_json, active_processes,
                          tickKeys, ticked>>)]_vars

\* a tick gave up on a control thread that would not start, after an earlier
\* tick had run to its end
C19_Witness ==
  /\ pc = "exited"
  /\ ticked
  /\ \E rec \in log : rec.text = "Error when start threads" /\ rec.type = "error"

\* where the reader of the process of handle pid is, "none" before there is one
ReaderState(pid) == IF pid \in Pids THEN procs[pid].reader ELSE "none"

\* the status of the process of handle pid, "none" before it is made
ProcState(pid) == IF pid \in Pids THEN procs[pid].status ELSE "none"

\* C21: reader termination. A reader whose capture process has ended (its
\* stream is then at its end) eventually returns; and a reader returns by the
\* break of its loop only when the process has ended, never on a read, empty
\* or not, made while the process runs.
C21_ReaderTerminates ==
  /\ \A pid \in AllPids :
       (ReaderState(pid) = "running" /\ ProcState(pid) # "running")
         ~> (ReaderState(pid) # "running")
  /\ [][\A pid \in Pids :
          (procs[pid].reader = "running" /\ procs'[pid].reader = "done") =>
            procs[pid].status # "running"]_vars

\* a capture process ended on its own and its reader has left its loop
C21_Witness ==
  \E pid \in Pids : procs[pid].status = "exited" /\ procs[pid].reader = "done"

\* C22: capture and registry agree on the identifier. After a completed
\* iteration of main's loop, every real address that has both a registry
\* entry and a capture entry has the registry's identifier in its capture
\* entry.
C22_CaptureUuidIsRegistryUuid ==
  (pc = "main_um" /\ ticked) =>
    \A r \in DOMAIN users_data \cap DOMAIN active_processes :
      active_processes[r].uuid = users_data[r].uuid

\* C23: capture and snapshot agree on the virtual address. At the end of a
\* tick, the capture entry of the real address of every row of the snapshot
\* filters on that row's virtual address.
C23_CaptureFiltersOnRowAddress ==
  TickEnd =>
    \A k \in 1..Len(users_list) :
      users_list[k][3] \in DOMAIN active_processes =>
        active_processes[users_list[k][3]].virtual_ip = users_list[k][1]

\* C24: re-monitoring after a capture dies. While client A is in every
\* snapshot, once its first capture process has ended on its own a second
\* capture process is eventually made for it.
C24_DeadCaptureRestarted ==
  (ProcState(<<"A", 1>>) = "exited") ~> (<<"A", 2>> \in Pids)

\* C25: add preserves the other persisted entries. A run of main with --add
\* for a real address leaves every persisted entry of another real address
\* in the file as it was.
C25_AddKeepsOtherEntries ==
  [][\A real_ip \in RealIPs :
       OneShotAdd(real_ip, HomeVirt(real_ip), "alice") =>
         \A r \in DOMAIN users_json \ {real_ip} :
           r \in DOMAIN users_json' /\ users_json'[r] = users_json[r]]_vars

====
